---- MODULE Spec2Model ----
(***************************************************************************)
(* Model of the Qdrant migration job (cloud-jobs/qdrant-migrate/main.py)   *)
(* and of the Qdrant export job (cloud-jobs/export-qdrant-to-gcs/main.py). *)
(*                                                                         *)
(* A source record is identified by its position in the source's scan      *)
(* order: the source collection of srcN records holds the ids 1..srcN.     *)
(* scroll(offset, limit) returns records offset+1 .. offset+k for some     *)
(* k <= limit chosen by the source store.  The destination collection is   *)
(* the sequence of the ids it stores; upsert inserts or overwrites by id.  *)
(***************************************************************************)
EXTENDS Integers, Sequences, FiniteSets, TLC

\* ------------------------------------------------------------------ bounds
MaxN == 3          \* largest source collection explored
MaxBatch == 2      \* largest batch_size explored (the job's default is 100)
MaxRuns == 2       \* the operator starts the job at most this many times
MaxExtra == 2      \* records another process writes to the destination
PipelineDepth == 2 \* batches a streaming run could keep in flight
MaxOverReport == 2 \* records the source's points_count may over-report by

\* ------------------------------------------------------- program constants
SuccessExitCode == 0       \* return 0 at the end of main
NotFoundExitCodeMut == SuccessExitCode
NotFoundExitCode == 1      \* sys.exit(1) when the collection is not listed
ExceptExitCodeMut == SuccessExitCode
ExceptExitCode == 1        \* sys.exit(1) in the except handler of main

NoExit == -1               \* the process has not exited yet
NoProgress == -1           \* the progress line was never printed

Dims == {2, 3}
Metrics == {"Cosine", "Dot"}
Jobs == {"migrate", "export"}

VARIABLES
    job,            \* which job's main() this process runs
    batch_size,     \* batch_size parameter of migrate_collection / export_collection
    srcExists,      \* the collection is listed by the source
    srcN,           \* number of records the source collection holds
    pointsCount,    \* points_count the source reports for the collection
    srcDim,         \* config.params.vectors.size of the source collection
    srcDist,        \* distance metric of the source collection
    tgtExists,      \* the collection exists on the target
    tgtDim,         \* vector size of the target collection
    tgtDist,        \* distance metric of the target collection
    tgtPoints,      \* ids stored in the target collection
    pc,             \* position of the process in main()
    run,            \* number of the current run of the job
    total_points,   \* local of migrate_collection / export_collection
    vector_size,    \* local of migrate_collection
    offset,         \* local of the scan loop
    limit,          \* local of the scan loop
    points,         \* page returned by the last scroll call
    migrated_count, \* local of migrate_collection
    progress,       \* last percentage printed
    all_points,     \* local of export_collection
    result,         \* <<>> or <<the dictionary returned>>
    warned,         \* the point-count mismatch warning was printed
    err,            \* which error message main printed
    okPrinted,      \* main printed its "completed successfully" line
    exitCode,       \* exit status of the process
    uploaded,       \* documents uploaded to the bucket
    scanCalls,      \* scroll calls issued by this run
    pagesSum,       \* sum of the sizes of the pages this run received
    shortSeen,      \* some page of this run was shorter than its limit
    upsertCalls,    \* upsert calls issued by this run
    createLog,      \* recreate_collection calls issued by this run
    extraWritten,   \* records written to the target by another process
    failedAt,       \* the step of main whose call raised, or "none"
    report,         \* <<>> or <<what main printed about the error>>
    prevFailedAfter,\* <<>> or <<batches the failed previous run had written>>
    peer,           \* a second run of migrate_collection on the same target
    cancel,         \* <<>> or <<scroll calls issued when the caller asked to stop>>
    tracker,        \* inputs and outputs of the rate / ETA computation
    loader,         \* one invocation of the loader function load_to_qdrant
    sweep           \* a run of the crawler, the embedding pipeline or the
                    \* PostgreSQL migrator over its list of items

vars == <<job, batch_size, srcExists, srcN, pointsCount, srcDim, srcDist,
          tgtExists, tgtDim, tgtDist, tgtPoints, pc, run, total_points,
          vector_size, offset, limit, points, migrated_count, progress,
          all_points, result, warned, err, okPrinted, exitCode, uploaded,
          scanCalls, pagesSum, shortSeen, upsertCalls, createLog,
          extraWritten, failedAt, report, prevFailedAfter, peer, cancel,
          tracker, loader, sweep>>

\* state of the other specifications' processes, untouched by this job
auxVars == <<peer, cancel, tracker, loader, sweep>>
envVars == <<job, batch_size, srcExists, srcN, pointsCount, srcDim, srcDist,
            auxVars>>
tgtVars == <<tgtExists, tgtDim, tgtDist, tgtPoints>>
loopVars == <<offset, limit, points, migrated_count, progress, all_points>>
outVars == <<result, warned, err, okPrinted, exitCode, uploaded, failedAt,
            report>>
ghostVars == <<scanCalls, pagesSum, shortSeen, upsertCalls, createLog>>

\* ----------------------------------------------------------------- helpers
Min(a, b) == IF a < b THEN a ELSE b
Max(a, b) == IF a > b THEN a ELSE b
Ceil(a, b) == (a + b - 1) \div b

\* Python's round() of the fraction num/den (den > 0): ties go to the even
\* neighbour.
RoundHalfEven(num, den) ==
    LET q == num \div den
        r == num % den
    IN  IF 2 * r < den THEN q
        ELSE IF 2 * r > den THEN q + 1
        ELSE IF q % 2 = 0 THEN q ELSE q + 1

\* min(100, round((done / total) * 100)) computed in exact arithmetic: the
\* value of FloatProgress below for the totals the runs of Spec can see.
Progress(done, total) == Min(100, RoundHalfEven(100 * done, total))

\* ---- the same expression in the arithmetic of Python's float (IEEE 754
\* double, round to nearest even).  A positive float is mant * 2^(-scale),
\* mant a sequence of MantissaBits bits, least significant first.
MantissaBits == 53

Reverse(b) == [i \in 1..Len(b) |-> b[Len(b) + 1 - i]]
Zeros(n) == [i \in 1..n |-> 0]
Bit(b, i) == IF i >= 1 /\ i <= Len(b) THEN b[i] ELSE 0
AnyBit(b, n) == \E i \in 1..Min(n, Len(b)) : b[i] = 1

RECURSIVE ToInt(_)
ToInt(b) == IF b = <<>> THEN 0 ELSE Head(b) + 2 * ToInt(Tail(b))

\* the carry into position i of a + b: some lower position has both bits
\* set and every position between passes the carry on
Carry(a, b, i) ==
    IF \E j \in 1..(i - 1) :
          /\ Bit(a, j) = 1 /\ Bit(b, j) = 1
          /\ \A k \in (j + 1)..(i - 1) : Bit(a, k) # Bit(b, k)
    THEN 1 ELSE 0

Add(a, b) ==
    LET n == Max(Len(a), Len(b))
        top == Carry(a, b, n + 1)
    IN  [i \in 1..(n + top) |-> (Bit(a, i) + Bit(b, i) + Carry(a, b, i)) % 2]

\* 2^e modulo t
RECURSIVE Pow2Mod(_, _)
Pow2Mod(e, t) ==
    IF e = 0 THEN 1 % t
    ELSE IF e % 2 = 1 THEN (2 * Pow2Mod(e - 1, t)) % t
    ELSE LET h == Pow2Mod(e \div 2, t) IN (h * h) % t

\* the next n bits of r / t (r < t), most significant first, and what is
\* left: bit i is the integer part of 2 * (r * 2^(i-1) mod t) / t
Expand(r, t, n) ==
    [bits |-> [i \in 1..n |->
                 IF 2 * ((r * Pow2Mod(i - 1, t)) % t) >= t THEN 1 ELSE 0],
     rem |-> (r * Pow2Mod(n, t)) % t]

\* the doublings that bring m up to t, and m after them
RECURSIVE Shift(_, _)
Shift(m, t) == IF m >= t THEN 0 ELSE 1 + Shift(2 * m, t)

RECURSIVE Scaled(_, _)
Scaled(m, t) == IF m >= t THEN m ELSE Scaled(2 * m, t)

\* b rounded to its p leading bits, ties to even; sticky tells that bits
\* below b were lost already
RoundTo(b, p, sticky) ==
    LET d == Len(b) - p
        kept == SubSeq(b, d + 1, Len(b))
        up == b[d] = 1 /\ (sticky \/ AnyBit(b, d - 1) \/ kept[1] = 1)
        inc == Add(kept, <<1>>)
    IN  IF d <= 0 THEN [mant |-> b, dropped |-> 0]
        ELSE IF ~up THEN [mant |-> kept, dropped |-> d]
        ELSE IF Len(inc) > p THEN [mant |-> Tail(inc), dropped |-> d + 1]
        ELSE [mant |-> inc, dropped |-> d]

\* done / total for 1 <= done <= total
FloatDiv(done, total) ==
    LET e == Expand(Scaled(done, total) - total, total, MantissaBits)
        r == RoundTo(Reverse(<<1>> \o e.bits), MantissaBits, e.rem # 0)
    IN  [mant |-> r.mant,
         scale |-> MantissaBits + Shift(done, total) - r.dropped]

\* x * 100
FloatMul100(x) ==
    LET p == Add(Add(Zeros(6) \o x.mant, Zeros(5) \o x.mant),
                 Zeros(2) \o x.mant)
        r == RoundTo(p, MantissaBits, FALSE)
    IN  [mant |-> r.mant, scale |-> x.scale - r.dropped]

\* round(y): the nearest integer, ties to even
PyRound(y) ==
    LET s == y.scale
        whole == IF s < Len(y.mant)
                 THEN ToInt(SubSeq(y.mant, s + 1, Len(y.mant))) ELSE 0
        up == Bit(y.mant, s) = 1 /\ (AnyBit(y.mant, s - 1) \/ whole % 2 = 1)
    IN  IF up THEN whole + 1 ELSE whole

\* progress = min(100, round((migrated_count / total_points) * 100))
FloatProgress(done, total) ==
    Min(100, PyRound(FloatMul100(FloatDiv(done, total))))

\* while offset < total_points
LoopCondMut(off, total) == off <= total
LoopCond(off, total) == off < total

\* source_client.scroll(...) is called once per iteration, outside any
\* retry loop: the number of times a raising scroll is attempted.
ScanAttemptsMut == 2
ScanAttempts == 1

\* remaining = total_points - offset
RemainingMut(total, off) == total - off - 1
Remaining(total, off) == total - off

\* limit = min(batch_size, remaining)
LimitMut(bs, remaining) == remaining
Limit(bs, remaining) == Min(bs, remaining)

\* offset += limit
NextOffsetMut(off, lim) == off + 1
NextOffset(off, lim) == off + lim

\* target_point_count != total_points
MismatchMut(target_count, total) == target_count < total
Mismatch(target_count, total) == target_count # total

\* The page sizes the source may answer to scroll(offset, limit): at most
\* limit records, at most what is left after offset, and at least one record
\* while records are left.
PageSizes(off, lim) ==
    LET m == Min(lim, Max(srcN - off, 0))
    IN  IF m <= 0 THEN {0} ELSE 1..m

\* The records scroll(offset, limit) returns when the page has k records.
Scroll(off, k) == [i \in 1..k |-> off + i]

Contains(store, id) == \E i \in 1..Len(store) : store[i] = id

UpsertMut(store, pts) ==
    IF pts = <<>> \/ Contains(store, Head(pts)) THEN store
    ELSE Append(store, Head(pts))

\* upsert: a point whose id is stored overwrites it, another is added
RECURSIVE Upsert(_, _)
Upsert(store, pts) ==
    IF pts = <<>> THEN store
    ELSE Upsert(IF Contains(store, Head(pts)) THEN store
                ELSE Append(store, Head(pts)),
                Tail(pts))

\* Locals and per-run observations at the start of a run of main().
FreshRun ==
    /\ total_points = 0
    /\ vector_size = 0
    /\ offset = 0
    /\ limit = 0
    /\ points = <<>>
    /\ migrated_count = 0
    /\ progress = NoProgress
    /\ all_points = <<>>
    /\ result = <<>>
    /\ warned = FALSE
    /\ err = "none"
    /\ failedAt = "none"
    /\ report = <<>>
    /\ okPrinted = FALSE
    /\ exitCode = NoExit
    /\ scanCalls = 0
    /\ pagesSum = 0
    /\ shortSeen = FALSE
    /\ upsertCalls = 0
    /\ createLog = <<>>

\* A rational number num/den with den > 0.
Rat(n, d) == [num |-> n, den |-> d]
RatIs(r, n) == r.num = n * r.den

\* rate = migrated_count / elapsed if elapsed > 0 else 0
RateMut(done, elapsed) == IF elapsed > 0 THEN Rat(elapsed, done) ELSE Rat(0, 1)
Rate(done, elapsed) == IF elapsed > 0 THEN Rat(done, elapsed) ELSE Rat(0, 1)

\* eta_seconds = (total_points - migrated_count) / rate if rate > 0 else 0
Eta(total, done, rate) ==
    IF rate.num > 0 THEN Rat((total - done) * rate.den, rate.num)
    ELSE Rat(0, 1)

\* No rate / ETA computation under way.
TrackerIdle ==
    [pc |-> "idle", migrated_count |-> 0, total_points |-> 0, elapsed |-> 0,
     progress |-> NoProgress, rate |-> Rat(0, 1), eta |-> Rat(0, 1)]

\* No loader invocation under way.
LoaderIdle ==
    [pc |-> "idle", file |-> <<>>, i |-> 0, points |-> <<>>,
     upserts |-> <<>>, total_upserted |-> 0, ensured |-> FALSE,
     published |-> <<>>, error |-> "", failedAt |-> "", raised |-> FALSE]

\* No run over a list of items under way.
SweepIdle ==
    [kind |-> "none", n |-> 0, records |-> <<>>, excluded |-> {},
     run |-> 1, pc |-> "idle", todo |-> <<>>, k |-> 1, total |-> 0,
     attempted |-> {}, succeeded |-> {}, failed |-> {}, ownFault |-> {},
     aborted |-> FALSE, processed |-> {}, embeddings |-> {},
     completed |-> {}, listed |-> {}, completedAtList |-> {}]

\* The second run before it has started.
PeerIdle ==
    [pc |-> "idle", total_points |-> 0, vector_size |-> 0, offset |-> 0,
     limit |-> 0, points |-> <<>>, migrated_count |-> 0, discarded |-> 0,
     shortSeen |-> FALSE, target_points |-> 0]

\* -------------------------------------------------------------------- Init
\* The source collection, the job and the target are the inputs of the run.
\* points_count is exact or over-reports by up to MaxOverReport (the store's
\* count is an estimate).  The target starts without the collection or with an empty one.
Init ==
    /\ job \in Jobs
    /\ batch_size \in 1..MaxBatch
    /\ srcExists \in BOOLEAN
    /\ srcN \in 0..MaxN
    /\ pointsCount \in srcN..(srcN + MaxOverReport)
    /\ srcDim \in Dims
    /\ srcDist \in Metrics
    /\ tgtExists \in BOOLEAN
    /\ tgtDim \in Dims
    /\ tgtDist \in Metrics
    /\ (~tgtExists => tgtDim = 2 /\ tgtDist = "Cosine")
    /\ (job = "export" => ~tgtExists)
    /\ (~srcExists => srcN = 0 /\ pointsCount = 0 /\ srcDim = 2 /\ srcDist = "Cosine")
    /\ tgtPoints = <<>>
    /\ pc = "connect"
    /\ run = 1
    /\ uploaded = <<>>
    /\ extraWritten = 0
    /\ prevFailedAfter = <<>>
    /\ peer = PeerIdle
    /\ cancel = <<>>
    /\ tracker = TrackerIdle
    /\ loader = LoaderIdle
    /\ sweep = SweepIdle
    /\ FreshRun

\* ----------------------------------------------------- qdrant-migrate main
\* get_source_qdrant_client(), get_target_qdrant_client()
main_connect ==
    /\ job = "migrate" /\ pc = "connect"
    /\ pc' = "check_source"
    /\ UNCHANGED <<envVars, tgtVars, run, total_points, vector_size, loopVars,
                   outVars, ghostVars,
                   extraWritten, prevFailedAfter>>

\* source_client.get_collections(); exit when the collection is not listed
main_check_source ==
    /\ job = "migrate" /\ pc = "check_source"
    /\ IF ~srcExists
       THEN /\ err' = "not_found"
            /\ report' = <<[error |-> "not_found"]>>
            /\ exitCode' = NotFoundExitCode
            /\ UNCHANGED failedAt
            /\ pc' = "done"
       ELSE /\ pc' = "check_target"
            /\ UNCHANGED <<err, exitCode, failedAt, report>>
    /\ UNCHANGED <<envVars, tgtVars, run, total_points, vector_size, loopVars,
                   result, warned, okPrinted, uploaded, ghostVars,
                   extraWritten, prevFailedAfter>>

\* target_client.get_collections()
main_check_target ==
    /\ job = "migrate" /\ pc = "check_target"
    /\ pc' = "get_info"
    /\ UNCHANGED <<envVars, tgtVars, run, total_points, vector_size, loopVars,
                   outVars, ghostVars,
                   extraWritten, prevFailedAfter>>

\* source_client.get_collection(collection_name): points_count, vector size
migrate_collection_info ==
    /\ job = "migrate" /\ pc = "get_info"
    /\ srcExists
    /\ total_points' = pointsCount
    /\ vector_size' = srcDim
    /\ pc' = "ensure"
    /\ UNCHANGED <<envVars, tgtVars, run, loopVars, outVars, ghostVars,
                   extraWritten, prevFailedAfter>>

\* ensure_collection_exists(target_client, ...): the store whose collection
\* the function probes and recreates
EnsureClientMut == "source"
EnsureClient == "target"

\* distance=Distance.COSINE in ensure_collection_exists
CreateDistance(source_metric) == "Cosine"

\* What main's "except Exception" handler leaves behind.
\* print(f"... ERROR: {e}", file=sys.stderr); traceback.print_exc()
FailureReportMut(e, off, count) == [error |-> e, offset |-> off]
FailureReport(e, off, count) == [error |-> e]

HandledMut ==
    /\ err' = "exception"
    /\ failedAt' = pc
    /\ report' = <<FailureReport("exception", offset, migrated_count)>>
    /\ exitCode' = ExceptExitCode
    /\ pc' = "verify"

Handled ==
    /\ err' = "exception"
    /\ failedAt' = pc
    /\ report' = <<FailureReport("exception", offset, migrated_count)>>
    /\ exitCode' = ExceptExitCode
    /\ pc' = "done"

\* ensure_collection_exists(target_client, collection_name, vector_size):
\* get_collection is the probe; when it raises, for whatever reason, the
\* except branch calls recreate_collection, which drops the collection and
\* creates it empty.  The probe raises when the collection is absent and may
\* raise on an existing collection (timeout, connection error).
ensure_collection_exists ==
    /\ job = "migrate" /\ pc = "ensure"
    /\ \E probe_raises \in BOOLEAN, recreate_raises \in BOOLEAN :
         /\ (~tgtExists => probe_raises)
         /\ (~probe_raises => ~recreate_raises)
         /\ IF ~probe_raises
            THEN /\ pc' = "loop"
                 /\ UNCHANGED <<tgtVars, createLog, err, exitCode, failedAt,
                                report, srcN, pointsCount>>
            ELSE /\ createLog' = Append(createLog,
                        [size |-> vector_size,
                         distance |-> CreateDistance(srcDist),
                         existed |-> tgtExists,
                         stored |-> Len(tgtPoints),
                         upserts |-> upsertCalls])
                 /\ IF recreate_raises
                    THEN /\ Handled
                         /\ UNCHANGED <<tgtVars, srcN, pointsCount>>
                    ELSE /\ IF EnsureClient = "target"
                            THEN /\ tgtExists' = TRUE
                                 /\ tgtDim' = vector_size
                                 /\ tgtDist' = CreateDistance(srcDist)
                                 /\ tgtPoints' = <<>>
                                 /\ UNCHANGED <<srcN, pointsCount>>
                            ELSE /\ srcN' = 0
                                 /\ pointsCount' = 0
                                 /\ UNCHANGED tgtVars
                         /\ pc' = "loop"
                         /\ UNCHANGED <<err, exitCode, failedAt, report>>
    /\ UNCHANGED <<job, batch_size, srcExists, srcDim, srcDist, auxVars,
                   run, total_points, vector_size, loopVars, result,
                   warned, okPrinted, uploaded, scanCalls, pagesSum, shortSeen,
                   upsertCalls, extraWritten, prevFailedAfter>>

\* The head of the while loop and the scroll call of migrate_collection;
\* an empty page leaves the loop.
migrate_collection_scroll ==
    /\ job = "migrate" /\ pc = "loop"
    /\ IF ~LoopCond(offset, total_points)
       THEN /\ pc' = "verify"
            /\ UNCHANGED <<limit, points, scanCalls, pagesSum, shortSeen>>
       ELSE LET lim == Limit(batch_size, Remaining(total_points, offset))
            IN  \E k \in PageSizes(offset, lim) :
                  /\ limit' = lim
                  /\ points' = Scroll(offset, k)
                  /\ scanCalls' = scanCalls + 1
                  /\ pagesSum' = pagesSum + k
                  /\ shortSeen' = (shortSeen \/ k < lim)
                  /\ pc' = IF k = 0 THEN "verify" ELSE "upsert"
    /\ UNCHANGED <<envVars, tgtVars, run, total_points, vector_size, offset,
                   migrated_count, progress, all_points, outVars, upsertCalls,
                   createLog, extraWritten, prevFailedAfter>>

\* target_client.upsert(...), then the counters and the progress line.  The
\* store accepts the points only when their vectors have the collection's
\* size.
migrate_collection_upsert ==
    /\ job = "migrate" /\ pc = "upsert"
    /\ tgtExists /\ tgtDim = vector_size
    /\ tgtPoints' = Upsert(tgtPoints, points)
    /\ upsertCalls' = upsertCalls + 1
    /\ migrated_count' = migrated_count + Len(points)
    /\ offset' = NextOffset(offset, limit)
    /\ IF total_points = 0
       THEN /\ Handled                      \* ZeroDivisionError
            /\ UNCHANGED progress
       ELSE /\ progress' = Progress(migrated_count', total_points)
            /\ pc' = "loop"
            /\ UNCHANGED <<err, exitCode, failedAt, report>>
    /\ UNCHANGED <<envVars, tgtExists, tgtDim, tgtDist, run, total_points,
                   vector_size, limit, points, all_points, result, warned,
                   okPrinted, uploaded, scanCalls, pagesSum, shortSeen,
                   createLog, extraWritten, prevFailedAfter>>

\* Verification, the returned dictionary, and the end of main (return 0).
migrate_collection_verify ==
    /\ job = "migrate" /\ pc = "verify"
    /\ tgtExists
    /\ LET target_point_count == Len(tgtPoints)
       IN  /\ warned' = Mismatch(target_point_count, total_points)
           /\ result' = <<[source_points |-> total_points,
                           target_points |-> target_point_count,
                           vector_size |-> vector_size]>>
    /\ okPrinted' = TRUE
    /\ exitCode' = SuccessExitCode
    /\ pc' = "done"
    /\ UNCHANGED <<envVars, tgtVars, run, total_points, vector_size, loopVars,
                   err, failedAt, report, uploaded, ghostVars,
                   extraWritten, prevFailedAfter>>

\* A call to the source or to the target raises; main's handler prints the
\* error and exits.  At "loop" the call is the scroll, issued only when the
\* loop condition holds.
main_except ==
    /\ job = "migrate"
    /\ pc \in {"connect", "check_source", "check_target", "get_info", "loop",
               "upsert", "verify"}
    /\ (pc = "loop" => LoopCond(offset, total_points))
    /\ scanCalls' = IF pc = "loop" THEN scanCalls + ScanAttempts
                    ELSE scanCalls
    /\ upsertCalls' = IF pc = "upsert" THEN upsertCalls + 1 ELSE upsertCalls
    /\ Handled
    /\ UNCHANGED <<envVars, tgtVars, run, total_points, vector_size, loopVars,
                   result, warned, okPrinted, uploaded, pagesSum, shortSeen,
                   createLog, extraWritten, prevFailedAfter>>

\* Another process writes a record of its own to the target collection while
\* the migration is between its first scroll and its verification.
ExternalWrite ==
    /\ job = "migrate" /\ pc \in {"loop", "upsert", "verify"}
    /\ tgtExists
    /\ extraWritten < MaxExtra
    /\ extraWritten' = extraWritten + 1
    /\ tgtPoints' = Append(tgtPoints, 0 - (extraWritten + 1))
    /\ UNCHANGED <<envVars, tgtExists, tgtDim, tgtDist, pc, run, total_points,
                   vector_size, loopVars, outVars, ghostVars, prevFailedAfter>>

\* The operator starts the job again after it has exited; the stores keep
\* their contents, the process starts from scratch.
Restart ==
    /\ pc = "done"
    /\ run < MaxRuns
    /\ run' = run + 1
    /\ pc' = "connect"
    /\ total_points' = 0
    /\ vector_size' = 0
    /\ offset' = 0
    /\ limit' = 0
    /\ points' = <<>>
    /\ migrated_count' = 0
    /\ progress' = NoProgress
    /\ all_points' = <<>>
    /\ result' = <<>>
    /\ warned' = FALSE
    /\ err' = "none"
    /\ failedAt' = "none"
    /\ report' = <<>>
    /\ prevFailedAfter' =
         IF err = "exception"
         THEN <<IF failedAt = "upsert" THEN upsertCalls - 1 ELSE upsertCalls>>
         ELSE <<>>
    /\ okPrinted' = FALSE
    /\ exitCode' = NoExit
    /\ scanCalls' = 0
    /\ pagesSum' = 0
    /\ shortSeen' = FALSE
    /\ upsertCalls' = 0
    /\ createLog' = <<>>
    /\ UNCHANGED <<envVars, tgtVars, uploaded, extraWritten>>

\* ------------------------------------------------ export-qdrant-to-gcs main
\* get_qdrant_client()
export_main_connect ==
    /\ job = "export" /\ pc = "connect"
    /\ pc' = "check_source"
    /\ UNCHANGED <<envVars, tgtVars, run, total_points, vector_size, loopVars,
                   outVars, ghostVars,
                   extraWritten, prevFailedAfter>>

\* client.get_collections(); exit when the collection is not listed
export_main_check_source ==
    /\ job = "export" /\ pc = "check_source"
    /\ IF ~srcExists
       THEN /\ err' = "not_found"
            /\ report' = <<[error |-> "not_found"]>>
            /\ exitCode' = NotFoundExitCode
            /\ UNCHANGED failedAt
            /\ pc' = "done"
       ELSE /\ pc' = "get_info"
            /\ UNCHANGED <<err, exitCode, failedAt, report>>
    /\ UNCHANGED <<envVars, tgtVars, run, total_points, vector_size, loopVars,
                   result, warned, okPrinted, uploaded, ghostVars,
                   extraWritten, prevFailedAfter>>

\* client.get_collection(collection_name): points_count
export_collection_info ==
    /\ job = "export" /\ pc = "get_info"
    /\ srcExists
    /\ total_points' = pointsCount
    /\ pc' = "loop"
    /\ UNCHANGED <<envVars, tgtVars, run, vector_size, loopVars, outVars,
                   ghostVars,
                   extraWritten, prevFailedAfter>>

\* The while loop of export_collection: scroll, extend all_points, advance
\* the offset, print the progress; after the loop the export dictionary.
export_collection_scroll ==
    /\ job = "export" /\ pc = "loop"
    /\ IF ~LoopCond(offset, total_points)
       THEN /\ result' = <<[total_points |-> Len(all_points),
                            points |-> all_points]>>
            /\ pc' = "upload"
            /\ UNCHANGED <<loopVars, scanCalls, pagesSum, shortSeen, err,
                           exitCode, failedAt, report>>
       ELSE LET lim == Limit(batch_size, Remaining(total_points, offset))
            IN  \E k \in PageSizes(offset, lim) :
                  /\ limit' = lim
                  /\ points' = Scroll(offset, k)
                  /\ all_points' = all_points \o Scroll(offset, k)
                  /\ offset' = NextOffset(offset, lim)
                  /\ scanCalls' = scanCalls + 1
                  /\ pagesSum' = pagesSum + k
                  /\ shortSeen' = (shortSeen \/ k < lim)
                  /\ IF total_points = 0
                     THEN /\ Handled                \* ZeroDivisionError
                          /\ UNCHANGED progress
                     ELSE /\ progress' = Progress(offset', total_points)
                          /\ pc' = "loop"
                          /\ UNCHANGED <<err, exitCode, failedAt, report>>
                  /\ UNCHANGED <<result, migrated_count>>
    /\ UNCHANGED <<envVars, tgtVars, run, total_points, vector_size, warned,
                   okPrinted, uploaded, upsertCalls, createLog,
                   extraWritten, prevFailedAfter>>

\* upload_to_gcs(export_data, ...), then the end of main (return 0)
upload_to_gcs ==
    /\ job = "export" /\ pc = "upload"
    /\ uploaded' = Append(uploaded, result[1])
    /\ okPrinted' = TRUE
    /\ exitCode' = SuccessExitCode
    /\ pc' = "done"
    /\ UNCHANGED <<envVars, tgtVars, run, total_points, vector_size, loopVars,
                   result, warned, err, failedAt, report, ghostVars,
                   extraWritten, prevFailedAfter>>

\* A call to the source or to the bucket raises; main's handler prints the
\* error and exits.
export_main_except ==
    /\ job = "export"
    /\ pc \in {"connect", "check_source", "get_info", "loop", "upload"}
    /\ (pc = "loop" => LoopCond(offset, total_points))
    /\ scanCalls' = IF pc = "loop" THEN scanCalls + ScanAttempts
                    ELSE scanCalls
    /\ Handled
    /\ UNCHANGED <<envVars, tgtVars, run, total_points, vector_size, loopVars,
                   result, warned, okPrinted, uploaded, pagesSum, shortSeen,
                   upsertCalls, createLog, extraWritten, prevFailedAfter>>

\* -------------------------------------------------------------------- Spec
Next ==
    \/ main_connect
    \/ main_check_source
    \/ main_check_target
    \/ migrate_collection_info
    \/ ensure_collection_exists
    \/ migrate_collection_scroll
    \/ migrate_collection_upsert
    \/ migrate_collection_verify
    \/ main_except
    \/ ExternalWrite
    \/ Restart
    \/ export_main_connect
    \/ export_main_check_source
    \/ export_collection_info
    \/ export_collection_scroll
    \/ upload_to_gcs
    \/ export_main_except

Spec == Init /\ [][Next]_vars

\* ------------------------------------------------------------ observations
Occurrences(store, id) == Cardinality({i \in 1..Len(store) : store[i] = id})

\* main returned 0 after a complete run
Succeeded == pc = "done" /\ okPrinted

\* the run has left its scan loop normally
LoopDone == pc \in {"verify", "upload"} \/ Succeeded

\* the points_count the source reports is the number of records it holds
CountExact == pointsCount = srcN

\* ------------------------------------------------------------------ claims

\* C1: a completed run over an unchanged source whose paginator returns at
\* most limit records per call leaves every source id exactly once in the
\* target (migration) or in the exported point list (export).
C1_NoLossNoDuplication ==
    (Succeeded /\ CountExact) =>
        \A id \in 1..srcN :
            IF job = "migrate"
            THEN Occurrences(tgtPoints, id) = 1
            ELSE Occurrences(result[1].points, id) = 1

\* C2: every completed migration run into the destination, the first and the
\* replay from offset 0, reports target_count = N.
C2_IdempotentReplay ==
    (job = "migrate" /\ Succeeded /\ CountExact /\ extraWritten = 0) =>
        /\ result[1].target_points = srcN
        /\ Len(tgtPoints) = srcN

\* C3 (as claimed): when the scan loop ends it has issued exactly
\* ceil(total_count / limit) scan calls and the batch sizes sum to total_count.
C3_PaginationExhaustionOrig ==
    LoopDone =>
        /\ scanCalls = Ceil(total_points, batch_size)
        /\ pagesSum = total_points

\* C3 (amended): when every page the source returned was full (as many
\* records as the call's limit), the scan loop ends after exactly
\* ceil(total_count / batch_size) scan calls and the batch sizes sum to
\* total_count.
C3_PaginationExhaustion ==
    (LoopDone /\ ~shortSeen) =>
        /\ scanCalls = Ceil(total_points, batch_size)
        /\ pagesSum = total_points

C3_Witness ==
    /\ LoopDone /\ ~shortSeen
    /\ scanCalls >= 2
    /\ total_points % batch_size # 0

\* C4: migrated_count never decreases from one batch to the next within a
\* run, and it equals total_count in every run that completes successfully.
C4_ProgressMonotonicity ==
    /\ [][run' = run => migrated_count' >= migrated_count]_vars
    /\ []((job = "migrate" /\ Succeeded /\ CountExact) =>
            migrated_count = total_points)

\* C5: when the destination lacks the collection the run issues exactly one
\* create call, with the source's dimension and the source's distance
\* metric, before any upsert.
C5_SchemaCreation ==
    (createLog # <<>> /\ ~createLog[1].existed) =>
        /\ Len(createLog) = 1
        /\ createLog[1].size = srcDim
        /\ createLog[1].distance = srcDist
        /\ createLog[1].upserts = 0

\* C6: ensure_collection_exists issues no create or recreate call on a
\* collection that exists, whatever the existence probe answers.
C6_NoCreateOnExisting ==
    \A i \in DOMAIN createLog : ~createLog[i].existed

C9_SourceNotFound ==
    (~srcExists /\ pc = "done") =>
        /\ exitCode # NoExit /\ exitCode # 0
        /\ ~okPrinted
        /\ createLog = <<>>
        /\ upsertCalls = 0
        /\ tgtPoints = <<>>
        /\ uploaded = <<>>

C9_Witness ==
    /\ ~srcExists /\ pc = "done"
    /\ err = "not_found"

\* C10: the process exits 0 exactly when the run succeeded (a count
\* mismatch included) and non-zero exactly when an error ended it.
C10_ExitContract ==
    pc = "done" =>
        /\ exitCode # NoExit
        /\ (exitCode = 0) <=> (okPrinted /\ err = "none")
        /\ (exitCode # 0) <=> (~okPrinted /\ err # "none")
        /\ (warned => exitCode = 0)

C10_Witness ==
    /\ pc = "done"
    /\ err = "exception"
    /\ upsertCalls >= 1
    /\ exitCode # 0

\* the run's scroll call or upsert call raised
FailedInTransfer == failedAt \in {"loop", "upsert"}

\* C11: once a scroll or an upsert has raised, the run is over: it has
\* exited non-zero without a result and without verification, and it issues
\* no further scroll or upsert and changes nothing on the target.
C11_FailStop ==
    /\ [](FailedInTransfer =>
            /\ pc = "done"
            /\ exitCode # NoExit /\ exitCode # 0
            /\ ~okPrinted /\ ~warned
            /\ result = <<>>)
    /\ [][(FailedInTransfer /\ run' = run) =>
            UNCHANGED <<pc, scanCalls, upsertCalls, tgtVars>>]_vars

C11_Witness ==
    /\ failedAt = "upsert"
    /\ pc = "done"
    /\ upsertCalls >= 2
    /\ tgtPoints # <<>>

\* C12: a run that failed after k written batches, followed by a fresh run
\* that completes against the same destination and the unchanged source,
\* leaves the destination with exactly the N source records, each id once.
C12_SafeRestart ==
    (job = "migrate" /\ prevFailedAfter # <<>> /\ Succeeded /\ CountExact
       /\ extraWritten = 0) =>
        /\ Len(tgtPoints) = srcN
        /\ \A id \in 1..srcN : Occurrences(tgtPoints, id) = 1

\* the target collection was there when the run reached its schema step,
\* with a vector size or a metric that is not the source's
SchemaDiffers ==
    /\ job = "migrate" /\ srcExists
    /\ tgtExists /\ createLog = <<>>
    /\ (tgtDim # srcDim \/ tgtDist # srcDist)

\* C13: when the destination collection exists with another dimension or
\* metric than the source's, the run fails and issues no upsert.
C13_SchemaMismatchFatal ==
    SchemaDiffers =>
        /\ upsertCalls = 0
        /\ (pc = "done" => exitCode # 0)

\* scroll calls of this run that returned a page, counted when a scroll
\* has raised: every earlier page was upserted (migration) or moved the
\* offset by one limit (export)
ReturnedScans ==
    IF job = "migrate" THEN upsertCalls ELSE Ceil(offset, batch_size)

InFlight ==
    IF job = "migrate"
    THEN IF pc = "upsert" THEN Len(points) ELSE 0
    ELSE IF pc \in {"loop", "upload"} THEN Len(all_points) ELSE 0

\* C15 (as claimed): at every point of a run the records in flight are at
\* most a small constant number of batches, whatever total_count is.
C15_BoundedInFlightOrig ==
    InFlight <= PipelineDepth * batch_size

\* C15 (amended): migrate_collection has at most one batch (at most
\* batch_size records) in flight at every point; export_collection keeps
\* every record it has fetched in all_points until the upload.
C15_BoundedInFlight ==
    /\ job = "migrate" => InFlight <= batch_size
    /\ (job = "export" /\ pc \in {"loop", "upload"}) => InFlight = pagesSum

C15_Witness ==
    /\ job = "migrate" /\ pc = "upsert"
    /\ batch_size >= 2
    /\ Len(points) = batch_size

\* ---------------------------------------------- two runs on one destination
\* A second process runs migrate_collection for the same collection, source
\* and target while the first one runs.  Its locals are the fields of peer.
mainVars == <<pc, run, total_points, vector_size, loopVars, outVars,
              ghostVars, extraWritten, prevFailedAfter>>

\* source_client.get_collection(collection_name) of the second run
peer_info ==
    /\ peer.pc = "get_info"
    /\ peer' = [peer EXCEPT !.pc = "probe",
                            !.total_points = pointsCount,
                            !.vector_size = srcDim]
    /\ UNCHANGED <<job, batch_size, srcExists, srcN, pointsCount, srcDim,
                   srcDist, cancel, tracker, loader, sweep, tgtVars, mainVars>>

\* ensure_collection_exists of the second run, the probe: get_collection
\* raises when the collection is absent and may raise on an existing one
peer_probe ==
    /\ peer.pc = "probe"
    /\ \E probe_raises \in BOOLEAN :
         /\ (~tgtExists => probe_raises)
         /\ peer' = [peer EXCEPT
                       !.pc = IF probe_raises THEN "create" ELSE "loop"]
    /\ UNCHANGED <<job, batch_size, srcExists, srcN, pointsCount, srcDim,
                   srcDist, cancel, tracker, loader, sweep, tgtVars, mainVars>>

\* ensure_collection_exists of the second run, the except branch:
\* recreate_collection drops what the collection holds by now
peer_recreate ==
    /\ peer.pc = "create"
    /\ tgtExists' = TRUE
    /\ tgtDim' = peer.vector_size
    /\ tgtDist' = CreateDistance(srcDist)
    /\ tgtPoints' = <<>>
    /\ peer' = [peer EXCEPT !.pc = "loop",
                            !.discarded = IF tgtExists THEN Len(tgtPoints)
                                          ELSE 0]
    /\ UNCHANGED <<job, batch_size, srcExists, srcN, pointsCount, srcDim,
                   srcDist, cancel, tracker, loader, sweep, mainVars>>

\* the loop head and the scroll call of the second run
peer_scroll ==
    /\ peer.pc = "loop"
    /\ IF ~LoopCond(peer.offset, peer.total_points)
       THEN peer' = [peer EXCEPT !.pc = "verify"]
       ELSE LET lim == Limit(batch_size, Remaining(peer.total_points, peer.offset))
            IN  \E k \in PageSizes(peer.offset, lim) :
                  peer' = [peer EXCEPT
                             !.limit = lim,
                             !.points = Scroll(peer.offset, k),
                             !.shortSeen = (peer.shortSeen \/ k < lim),
                             !.pc = IF k = 0 THEN "verify" ELSE "upsert"]
    /\ UNCHANGED <<job, batch_size, srcExists, srcN, pointsCount, srcDim,
                   srcDist, cancel, tracker, loader, sweep, tgtVars, mainVars>>

\* the upsert of the second run and its counters
peer_upsert ==
    /\ peer.pc = "upsert"
    /\ tgtExists /\ tgtDim = peer.vector_size
    /\ tgtPoints' = Upsert(tgtPoints, peer.points)
    /\ peer' = [peer EXCEPT
                  !.migrated_count = peer.migrated_count + Len(peer.points),
                  !.offset = NextOffset(peer.offset, peer.limit),
                  !.pc = "loop"]
    /\ UNCHANGED <<job, batch_size, srcExists, srcN, pointsCount, srcDim,
                   srcDist, cancel, tracker, loader, sweep, tgtExists, tgtDim, tgtDist, mainVars>>

\* the verification of the second run
peer_verify ==
    /\ peer.pc = "verify"
    /\ tgtExists
    /\ peer' = [peer EXCEPT !.pc = "done", !.target_points = Len(tgtPoints)]
    /\ UNCHANGED <<job, batch_size, srcExists, srcN, pointsCount, srcDim,
                   srcDist, cancel, tracker, loader, sweep, tgtVars, mainVars>>

\* Both runs migrate the same listed collection, whose count is exact, into
\* a target that lacks the collection or holds it empty with the source's
\* schema.
InitTwoRuns ==
    /\ job = "migrate"
    /\ batch_size \in 1..MaxBatch
    /\ srcExists = TRUE
    /\ srcN \in 0..MaxN
    /\ pointsCount = srcN
    /\ srcDim \in Dims
    /\ srcDist = "Cosine"
    /\ tgtExists \in BOOLEAN
    /\ tgtDim = IF tgtExists THEN srcDim ELSE 2
    /\ tgtDist = "Cosine"
    /\ tgtPoints = <<>>
    /\ pc = "connect"
    /\ run = 1
    /\ uploaded = <<>>
    /\ extraWritten = 0
    /\ prevFailedAfter = <<>>
    /\ peer = [PeerIdle EXCEPT !.pc = "get_info"]
    /\ cancel = <<>>
    /\ tracker = TrackerIdle
    /\ loader = LoaderIdle
    /\ sweep = SweepIdle
    /\ FreshRun

NextTwoRuns ==
    \/ main_connect
    \/ main_check_source
    \/ main_check_target
    \/ migrate_collection_info
    \/ ensure_collection_exists
    \/ migrate_collection_scroll
    \/ migrate_collection_upsert
    \/ migrate_collection_verify
    \/ main_except
    \/ peer_info
    \/ peer_probe
    \/ peer_recreate
    \/ peer_scroll
    \/ peer_upsert
    \/ peer_verify

SpecTwoRuns == InitTwoRuns /\ [][NextTwoRuns]_vars

\* C16: in every interleaving of two runs into the same collection, the
\* schema step of one run never discards records the other run has upserted,
\* and when both runs have completed (every page full) the destination holds
\* every source record.
C16_NoInterference ==
    /\ \A i \in DOMAIN createLog : createLog[i].stored = 0
    /\ peer.discarded = 0
    /\ (Succeeded /\ peer.pc = "done" /\ ~shortSeen /\ ~peer.shortSeen) =>
           \A id \in 1..srcN : Occurrences(tgtPoints, id) = 1

\* ------------------------------------------------------------ cancellation
\* The caller of a running migration asks it to stop.  migrate_collection
\* takes no cancellation token and reads no flag: the request only exists
\* on the caller's side.
RequestCancel ==
    /\ job = "migrate" /\ pc \in {"loop", "upsert"}
    /\ cancel = <<>>
    /\ cancel' = <<scanCalls>>
    /\ UNCHANGED <<job, batch_size, srcExists, srcN, pointsCount, srcDim,
                   srcDist, peer, tracker, loader, sweep, tgtVars, mainVars>>

\* One migration of a listed collection into a target that lacks the
\* collection or holds it empty with the source's vector size.
InitCancel ==
    /\ job = "migrate"
    /\ batch_size \in 1..MaxBatch
    /\ srcExists = TRUE
    /\ srcN \in 0..MaxN
    /\ pointsCount \in srcN..(srcN + MaxOverReport)
    /\ srcDim \in Dims
    /\ srcDist \in Metrics
    /\ tgtExists \in BOOLEAN
    /\ tgtDim = IF tgtExists THEN srcDim ELSE 2
    /\ tgtDist = "Cosine"
    /\ tgtPoints = <<>>
    /\ pc = "connect"
    /\ run = 1
    /\ uploaded = <<>>
    /\ extraWritten = 0
    /\ prevFailedAfter = <<>>
    /\ peer = PeerIdle
    /\ cancel = <<>>
    /\ tracker = TrackerIdle
    /\ loader = LoaderIdle
    /\ sweep = SweepIdle
    /\ FreshRun

NextCancel ==
    \/ main_connect
    \/ main_check_source
    \/ main_check_target
    \/ migrate_collection_info
    \/ ensure_collection_exists
    \/ migrate_collection_scroll
    \/ migrate_collection_upsert
    \/ migrate_collection_verify
    \/ main_except
    \/ RequestCancel

SpecCancel == InitCancel /\ [][NextCancel]_vars

MaxEtaInput == 4

\* the main process of the jobs is not running
MainIdle ==
    /\ job = "migrate" /\ batch_size = 1
    /\ srcExists = FALSE /\ srcN = 0 /\ pointsCount = 0
    /\ srcDim = 2 /\ srcDist = "Cosine"
    /\ tgtExists = FALSE /\ tgtDim = 2 /\ tgtDist = "Cosine"
    /\ tgtPoints = <<>>
    /\ pc = "idle" /\ run = 1
    /\ uploaded = <<>> /\ extraWritten = 0 /\ prevFailedAfter = <<>>
    /\ FreshRun

\* The inputs the progress lines of the loop can see: at least one record
\* migrated, not more than total_points, and any elapsed time.
InitEta ==
    /\ MainIdle
    /\ peer = PeerIdle
    /\ cancel = <<>>
    /\ loader = LoaderIdle
    /\ sweep = SweepIdle
    /\ \E t \in (1..MaxEtaInput) \cup {40, 200},
          m \in (1..MaxEtaInput) \cup {23, 50},
          e \in (0..MaxEtaInput) \cup {10} :
         /\ m <= t
         /\ tracker = [TrackerIdle EXCEPT !.pc = "input",
                                          !.migrated_count = m,
                                          !.total_points = t,
                                          !.elapsed = e]

\* progress, rate and eta_seconds of the progress indicator
progress_indicator ==
    /\ tracker.pc = "input"
    /\ LET r == Rate(tracker.migrated_count, tracker.elapsed)
       IN  tracker' = [tracker EXCEPT
                         !.pc = "done",
                         !.progress = FloatProgress(tracker.migrated_count,
                                                    tracker.total_points),
                         !.rate = r,
                         !.eta = Eta(tracker.total_points,
                                     tracker.migrated_count, r)]
    /\ UNCHANGED <<job, batch_size, srcExists, srcN, pointsCount, srcDim,
                   srcDist, peer, cancel, loader, sweep, tgtVars, mainVars>>

NextEta == progress_indicator

SpecEta == InitEta /\ [][NextEta]_vars

\* C19: with elapsed > 0 and migrated_count > 0, rate is migrated_count /
\* elapsed and eta is (total_count - migrated_count) / rate; 50 of 200 after
\* 10 s gives rate 5 and eta 30; rate is 0 when elapsed is 0 and eta is 0
\* when rate is 0.
C19_Eta ==
    tracker.pc = "done" =>
        LET m == tracker.migrated_count
            t == tracker.total_points
            e == tracker.elapsed
            rate == tracker.rate
            eta == tracker.eta
        IN  /\ rate.den > 0 /\ eta.den > 0
            /\ (e > 0 /\ m > 0) =>
                  /\ rate.num * e = m * rate.den
                  /\ eta.num * rate.num = (t - m) * rate.den * eta.den
                  /\ eta.num * m = (t - m) * e * eta.den
            /\ (m = 50 /\ t = 200 /\ e = 10) =>
                  (RatIs(rate, 5) /\ RatIs(eta, 30))
            /\ (e = 0) => RatIs(rate, 0)
            /\ RatIs(rate, 0) => RatIs(eta, 0)

C19_Witness ==
    /\ tracker.pc = "done"
    /\ tracker.migrated_count = 50
    /\ tracker.total_points = 200
    /\ tracker.elapsed = 10
    /\ RatIs(tracker.eta, 30)

\* The exact Progress the runs of Spec print is what the float expression
\* gives for every total such a run can see.
ProgressWithinBounds ==
    (tracker.pc = "done" /\ tracker.total_points <= MaxEtaInput) =>
        tracker.progress = Progress(tracker.migrated_count,
                                    tracker.total_points)

\* --------------------------------------------------- the scan loop, again
\* C21 (as claimed): at the top of every iteration of the scan loop, offset
\* is the number of records the earlier scan calls of this run returned
\* (migrated_count for the migration, the length of all_points for the
\* export).
C21_OffsetAccounting ==
    /\ (job = "migrate" /\ pc = "loop") => offset = migrated_count
    /\ (job = "export" /\ pc = "loop") => offset = Len(all_points)

\* C22 (as claimed): a scan call that returns an empty page ends the scan:
\* the loop issues no upsert for it and goes on to the verification (to the
\* export dictionary), and no further scan call of the run follows it.
C22_EmptyPageEndsScan ==
    /\ [][(pc = "loop" /\ scanCalls' = scanCalls + 1 /\ pagesSum' = pagesSum
             /\ pc' # "done") =>
            (pc' \in {"verify", "loop"} /\ upsertCalls' = upsertCalls)]_vars
    /\ [][(pc = "loop" /\ scanCalls >= 1 /\ points = <<>>) =>
            scanCalls' = scanCalls]_vars

\* ------------------------------------------------- loader: load_to_qdrant
MaxFile == 3

\* BATCH_SIZE of the loader, scaled down (100 in the source) so that files
\* within MaxFile span several batches.
BATCH_SIZE == 2

ContentLimit == 1000

\* A JSON value of a text field: the key is absent, it is null, or it is a
\* string.  A string is known by the field it came from and its length; a
\* prefix of it is the same field with a smaller length.
Absent == [kind |-> "absent", of |-> "", len |-> 0]
Null == [kind |-> "null", of |-> "", len |-> 0]
Str(f, n) == [kind |-> "str", of |-> IF n = 0 THEN "" ELSE f, len |-> n]
EmptyStr == Str("", 0)

TextValues(f) == {Absent, Null, EmptyStr, Str(f, 1), Str(f, ContentLimit + 1)}

Presence == {"absent", "null", "value"}
ObjectStates == {"absent", "null", "object"}

\* One parsed line of the embeddings file.  original_record lives inside
\* metadata and description / text / abstract inside original_record.
Embeddings ==
    {e \in [id : Presence, embedding : Presence,
            embedding_text : TextValues("embedding_text"),
            metadata : ObjectStates, original_record : ObjectStates,
            description : TextValues("description"),
            text : TextValues("text"),
            abstract : TextValues("abstract")] :
        /\ e.metadata # "object" => e.original_record = "absent"
        /\ e.original_record # "object" =>
              (e.description = Absent /\ e.text = Absent /\ e.abstract = Absent)}

PlainEmb(desc, et) ==
    [id |-> "value", embedding |-> "value", embedding_text |-> et,
     metadata |-> "object", original_record |-> "object",
     description |-> desc, text |-> Absent, abstract |-> Absent]

\* The records of the files of more than one line.
FileRecords ==
    {PlainEmb(Str("description", ContentLimit + 1), Str("embedding_text", 1)),
     PlainEmb(Absent, Str("embedding_text", 1)),
     [id |-> "value", embedding |-> "value", embedding_text |-> Absent,
      metadata |-> "null", original_record |-> "absent",
      description |-> Absent, text |-> Absent, abstract |-> Absent]}

Files ==
    {<<>>} \cup {<<e>> : e \in Embeddings}
           \cup UNION {[1..n -> FileRecords] : n \in 2..MaxFile}

\* dict.get(key, default) and dict.get(key)
Get(v, default) == IF v.kind = "absent" THEN default ELSE v
GetNone(v) == Get(v, Null)

\* Python truth of a text value and the value of `a or b`
Truthy(v) == v.kind = "str" /\ v.len > 0
Or(a, b) == IF Truthy(a) THEN a ELSE b

\* s[:n]
SliceMut(v, n) == v
Slice(v, n) == [v EXCEPT !.len = Min(v.len, n)]

\* for i in range(0, len(embeddings), BATCH_SIZE): the start of the next batch
NextBatchMut(i) == i + BATCH_SIZE + 1
NextBatch(i) == i + BATCH_SIZE

\* description or text or abstract or emb.get('embedding_text', '')
Content(emb) ==
    Or(Or(Or(GetNone(emb.description), GetNone(emb.text)),
          GetNone(emb.abstract)),
       Get(emb.embedding_text, EmptyStr))

\* The exception the statements that build one point raise, in the order
\* they are evaluated; "" if none does.
BuildError(emb) ==
    IF emb.metadata = "null" THEN "AttributeError"
    ELSE IF emb.original_record = "null" THEN "AttributeError"
    ELSE IF emb.id = "absent" THEN "KeyError"
    ELSE IF emb.embedding = "absent" THEN "KeyError"
    ELSE IF Content(emb).kind = "null" THEN "TypeError"
    ELSE ""

\* PointStruct is the client library's: given a null id or vector it either
\* rejects the arguments or stores them.
PointStructErrors(emb) ==
    IF emb.id = "null" \/ emb.embedding = "null"
    THEN {"ValidationError", ""}
    ELSE {""}

Point(emb) ==
    [id |-> emb.id, vector |-> emb.embedding,
     embedding_text |-> Get(emb.embedding_text, EmptyStr),
     content |-> Slice(Content(emb), ContentLimit)]

\* except Exception as e: print(...); raise
LoaderRaiseMut(e) ==
    loader' = [loader EXCEPT !.error = e, !.failedAt = loader.pc,
                             !.pc = "raised"]
LoaderRaise(e) ==
    loader' = [loader EXCEPT !.error = e, !.failedAt = loader.pc,
                             !.raised = TRUE, !.pc = "raised"]

loaderFrame ==
    <<job, batch_size, srcExists, srcN, pointsCount, srcDim, srcDist,
      peer, cancel, tracker, sweep, tgtVars, mainVars>>

\* download the embeddings file and parse it
loader_download ==
    /\ loader.pc = "start"
    /\ \/ LoaderRaise("download")
       \/ /\ Len(loader.file) = 0
          /\ loader' = [loader EXCEPT !.pc = "returned"]
       \/ /\ Len(loader.file) > 0
          /\ loader' = [loader EXCEPT !.pc = "ensure"]
    /\ UNCHANGED loaderFrame

loader_ensure_collection_exists ==
    /\ loader.pc = "ensure"
    /\ \/ LoaderRaise("ensure")
       \/ loader' = [loader EXCEPT !.ensured = TRUE, !.pc = "build"]
    /\ UNCHANGED loaderFrame

\* one iteration of `for emb in batch`
loader_build_point ==
    /\ loader.pc = "build"
    /\ LET n == Len(loader.file)
           j == loader.i + Len(loader.points) + 1
           emb == loader.file[j]
           size == Min(BATCH_SIZE, n - loader.i)
       IN  IF BuildError(emb) # ""
           THEN LoaderRaise(BuildError(emb))
           ELSE \E e \in PointStructErrors(emb) :
                  IF e # ""
                  THEN LoaderRaise(e)
                  ELSE loader' =
                         [loader EXCEPT
                            !.points = Append(loader.points,
                                              [line |-> j, point |-> Point(emb)]),
                            !.pc = IF Len(loader.points) + 1 = size
                                   THEN "upsert" ELSE "build"]
    /\ UNCHANGED loaderFrame

loader_upsert ==
    /\ loader.pc = "upsert"
    /\ \/ LoaderRaise("upsert")
       \/ loader' = [loader EXCEPT
                       !.upserts = Append(loader.upserts, loader.points),
                       !.total_upserted = loader.total_upserted
                                            + Len(loader.points),
                       !.points = <<>>,
                       !.i = NextBatch(loader.i),
                       !.pc = IF NextBatch(loader.i) < Len(loader.file)
                              THEN "build" ELSE "publish"]
    /\ UNCHANGED loaderFrame

loader_publish ==
    /\ loader.pc = "publish"
    /\ \/ LoaderRaise("publish")
       \/ loader' = [loader EXCEPT
                       !.published = Append(loader.published,
                                            loader.total_upserted),
                       !.pc = "done"]
    /\ UNCHANGED loaderFrame

InitLoader ==
    /\ MainIdle
    /\ peer = PeerIdle
    /\ cancel = <<>>
    /\ tracker = TrackerIdle
    /\ sweep = SweepIdle
    /\ \E f \in Files :
         loader = [LoaderIdle EXCEPT !.pc = "start", !.file = f]

NextLoader ==
    \/ loader_download
    \/ loader_ensure_collection_exists
    \/ loader_build_point
    \/ loader_upsert
    \/ loader_publish

SpecLoader == InitLoader /\ [][NextLoader]_vars

\* C20 (as claimed): building the destination point never raises, whatever
\* fields of the input record are absent or null.
C20_TransformerTotal ==
    ~(loader.pc = "raised" /\ loader.failedAt = "build")

\* ------------------------------------------------------------ termination
\* One run of either job whose process keeps running: every call it makes
\* returns or raises.
NextLive ==
    \/ main_connect
    \/ main_check_source
    \/ main_check_target
    \/ migrate_collection_info
    \/ ensure_collection_exists
    \/ migrate_collection_scroll
    \/ migrate_collection_upsert
    \/ migrate_collection_verify
    \/ main_except
    \/ export_main_connect
    \/ export_main_check_source
    \/ export_collection_info
    \/ export_collection_scroll
    \/ upload_to_gcs
    \/ export_main_except

SpecLive == Init /\ [][NextLive]_vars /\ WF_vars(NextLive)

\* C27: whatever the pages the source returns, a scan loop ends after
\* finitely many scan calls: a run in its loop leaves it, and it issues at
\* most ceil(total_points / batch_size) scan calls.
C27_Termination ==
    /\ [](scanCalls <= Ceil(total_points, batch_size))
    /\ (pc = "loop") ~> (pc # "loop")

C27_Witness ==
    /\ job = "export" /\ pc = "upload"
    /\ scanCalls >= 2
    /\ shortSeen
    /\ Len(all_points) < srcN

\* C28: no step of a run changes the source collection: its existence, its
\* records, its reported count and its vector configuration.
C28_SourceReadOnly ==
    [][UNCHANGED <<srcExists, srcN, pointsCount, srcDim, srcDist>>]_vars

C28_Witness ==
    /\ job = "migrate" /\ Succeeded
    /\ createLog # <<>>
    /\ srcN >= 2
    /\ Len(tgtPoints) = srcN
    /\ extraWritten = 0

\* the points of the upsert calls so far, in the order they were sent
RECURSIVE Flatten(_)
Flatten(batches) ==
    IF batches = <<>> THEN <<>> ELSE Head(batches) \o Flatten(Tail(batches))

Written == Flatten(loader.upserts)

\* the loop over the batches has ended without an exception
BatchesDone ==
    \/ loader.pc \in {"publish", "done"}
    \/ loader.pc = "raised" /\ loader.failedAt = "publish"

\* C24: the content of every written point is the first non-empty of
\* original_record's description, text and abstract, else embedding_text
\* (the empty string when that is absent), cut to 1000 characters; no
\* written point has a content longer than 1000 characters.
C24_ContentSelection ==
    \A k \in 1..Len(Written) :
        LET emb == loader.file[Written[k].line]
            content == Written[k].point.content
            chosen ==
                IF Truthy(emb.description) THEN emb.description
                ELSE IF Truthy(emb.text) THEN emb.text
                ELSE IF Truthy(emb.abstract) THEN emb.abstract
                ELSE IF emb.embedding_text.kind = "absent" THEN EmptyStr
                ELSE emb.embedding_text
        IN  /\ content.kind = "str"
            /\ content.len <= 1000
            /\ chosen.kind = "str"
            /\ content.of = chosen.of
            /\ content.len = IF chosen.len > 1000 THEN 1000 ELSE chosen.len

C24_Witness ==
    /\ loader.pc = "done"
    /\ Len(Written) = 1
    /\ loader.file[1].description = EmptyStr
    /\ loader.file[1].text.len > 1000
    /\ Written[1].point.content = Str("text", 1000)

\* C25: when the loop over the batches ends, the file of n >= 1 records has
\* been sent in exactly ceil(n / BATCH_SIZE) upsert calls of 1..BATCH_SIZE
\* points each, every record in exactly one call and in file order, and
\* total_upserted is n.
C25_LoaderBatching ==
    BatchesDone =>
        LET n == Len(loader.file)
        IN  /\ n >= 1
            /\ Len(loader.upserts) = Ceil(n, BATCH_SIZE)
            /\ \A b \in 1..Len(loader.upserts) :
                  Len(loader.upserts[b]) \in 1..BATCH_SIZE
            /\ Len(Written) = n
            /\ \A k \in 1..Len(Written) : Written[k].line = k
            /\ loader.total_upserted = n

C25_Witness ==
    /\ loader.pc = "done"
    /\ Len(loader.upserts) >= 2
    /\ Len(loader.upserts[Len(loader.upserts)]) < BATCH_SIZE
    /\ loader.total_upserted = Len(loader.file)

\* C26: the completion event is published at most once, only after
\* ensure_collection_exists and every batch upsert have returned, with
\* vectorsLoaded the number of records upserted; nothing is published for an
\* empty file or when a step fails, and a failure is re-raised.
C26_CompletionEvent ==
    /\ Len(loader.published) <= 1
    /\ loader.published # <<>> =>
          /\ loader.pc = "done"
          /\ loader.ensured
          /\ Len(loader.upserts) = Ceil(Len(loader.file), BATCH_SIZE)
          /\ loader.published[1] = Len(Written)
          /\ loader.published[1] = loader.total_upserted
    /\ Len(loader.file) = 0 => loader.published = <<>>
    /\ loader.error # "" =>
          (loader.published = <<>> /\ loader.pc = "raised" /\ loader.raised)
    /\ loader.pc = "done" => Len(loader.published) = 1

C26_Witness ==
    /\ loader.pc = "done"
    /\ loader.published = <<Len(loader.file)>>
    /\ Len(loader.upserts) >= 2

\* --------------------------------------------------- progress percentage
\* C23 (as claimed): the reported percent is an integer between 0 and 100
\* equal to min(100, round(100 * migrated_count / total_count)).
C23_ProgressPercent ==
    tracker.pc = "done" =>
        /\ tracker.progress \in 0..100
        /\ tracker.progress =
             Min(100, RoundHalfEven(100 * tracker.migrated_count,
                                    tracker.total_points))

\* ------------------------------- runs over a list of items (src/crawler)
\* IncidentCrawler.run over its sources, EmbeddingPipeline.run over the
\* unprocessed raw files, PostgresToGCSMigrator.migrate_all_tables over the
\* tables.  An item is known by its position 1..n.
MaxItems == 2      \* files in the bucket, tables in the database
MaxRecords == 2    \* records of one item
MaxSweeps == 2     \* runs of the embedding pipeline

\* sources = [("cisa-kev", ...), ("nvd", ...), ("breach-examples", ...)]
CrawlerSources == {"cisa-kev", "nvd", "breach-examples"}

Items == 1..sweep.n

\* What handling one item can come to.
\*   crawler:  scrape_func() returns nothing or raises, upload_to_storage
\*             raises, or the upload succeeds
\*   pipeline: read_incidents_from_file returns nothing, process_incidents
\*             raises, save_processed_incidents raises at its first or at its
\*             second upload, or both uploads succeed
\*   postgres: export_table raises a database error or returns no rows,
\*             convert_to_incident_format or upload_to_gcs raises, or the
\*             upload succeeds
Outcomes(kind) ==
    CASE kind = "crawler" -> {"ok", "empty", "fail_scrape", "fail_upload"}
      [] kind = "pipeline" -> {"ok", "empty", "fail_process",
                               "fail_save_processed", "fail_save_embeddings"}
      [] kind = "postgres" -> {"ok", "empty", "fail_query", "fail_convert",
                               "fail_upload"}

\* The psycopg2 connection is opened with its defaults (no autocommit) and
\* nothing calls rollback(): once a statement has failed, every later
\* cursor.execute on the connection raises.
PossibleOutcomes(s) ==
    IF s.kind = "postgres" /\ s.aborted THEN {"cascade"}
    ELSE Outcomes(s.kind)

\* total += len(incidents), after the upload(s) of the item
AddTotal(total, count) == total + count

\* the pipeline's bucket after save_processed_incidents came to outcome o
AfterSave(s, i, o) ==
    IF s.kind # "pipeline" THEN s
    ELSE IF o = "ok"
    THEN [s EXCEPT !.processed = @ \cup {i}, !.embeddings = @ \cup {i},
                   !.completed = @ \cup {i}]
    ELSE IF o = "fail_save_embeddings"
    THEN [s EXCEPT !.processed = @ \cup {i}]
    ELSE s

\* one iteration of the for loop, with its try / except / continue
AfterItem(s, i, o) ==
    LET t == AfterSave(s, i, o)
        u == [t EXCEPT !.attempted = @ \cup {i},
                       !.k = @ + 1,
                       !.pc = IF s.k = Len(s.todo) THEN "done" ELSE "loop"]
    IN  IF o = "ok"
        THEN [u EXCEPT !.succeeded = @ \cup {i},
                       !.total = AddTotal(@, s.records[i])]
        ELSE IF o = "empty" THEN u
        ELSE IF o = "cascade" THEN [u EXCEPT !.failed = @ \cup {i}]
        ELSE [u EXCEPT !.failed = @ \cup {i},
                       !.ownFault = @ \cup {i},
                       !.aborted = (@ \/ o = "fail_query")]

\* the orders in which a set can be listed
Orders(S) ==
    {q \in [1..Cardinality(S) -> S] :
        \A a, b \in 1..Cardinality(S) : a # b => q[a] # q[b]}

sweepFrame ==
    <<job, batch_size, srcExists, srcN, pointsCount, srcDim, srcDist,
      peer, cancel, tracker, loader, tgtVars, mainVars>>

\* IncidentCrawler.run: the list of sources
crawler_run ==
    /\ sweep.kind = "crawler" /\ sweep.pc = "start"
    /\ sweep' = [sweep EXCEPT !.todo = [i \in 1..sweep.n |-> i],
                              !.pc = "loop"]
    /\ UNCHANGED sweepFrame

\* IncidentCrawler.run: one source
crawler_run_source ==
    /\ sweep.kind = "crawler" /\ sweep.pc = "loop"
    /\ \E o \in PossibleOutcomes(sweep) :
         sweep' = AfterItem(sweep, sweep.todo[sweep.k], o)
    /\ UNCHANGED sweepFrame

\* EmbeddingPipeline.run: list_unprocessed_files, the raw files without a
\* blob of the same name under incidents/processed/, in the order of a set
list_unprocessed_files ==
    /\ sweep.kind = "pipeline" /\ sweep.pc = "start"
    /\ \/ sweep' = [sweep EXCEPT !.pc = "failed"]
       \/ \E q \in Orders(Items \ sweep.processed) :
            sweep' = [sweep EXCEPT
                        !.todo = q,
                        !.listed = Items \ sweep.processed,
                        !.completedAtList = sweep.completed,
                        !.pc = IF q = <<>> THEN "done" ELSE "loop"]
    /\ UNCHANGED sweepFrame

\* EmbeddingPipeline.run: one file
pipeline_run_file ==
    /\ sweep.kind = "pipeline" /\ sweep.pc = "loop"
    /\ \E o \in PossibleOutcomes(sweep) :
         sweep' = AfterItem(sweep, sweep.todo[sweep.k], o)
    /\ UNCHANGED sweepFrame

\* the next scheduled run of the pipeline
pipeline_next_run ==
    /\ sweep.kind = "pipeline" /\ sweep.pc \in {"done", "failed"}
    /\ sweep.run < MaxSweeps
    /\ sweep' = [sweep EXCEPT !.run = @ + 1, !.pc = "start", !.todo = <<>>,
                              !.k = 1, !.total = 0, !.attempted = {},
                              !.succeeded = {}, !.failed = {},
                              !.ownFault = {}]
    /\ UNCHANGED sweepFrame

\* migrate_all_tables: list_tables (ORDER BY table_name)
list_tables ==
    /\ sweep.kind = "postgres" /\ sweep.pc = "start"
    /\ \/ sweep' = [sweep EXCEPT !.pc = "failed"]
       \/ sweep' = [sweep EXCEPT !.todo = [i \in 1..sweep.n |-> i],
                                 !.pc = "loop"]
    /\ UNCHANGED sweepFrame

\* migrate_all_tables: one table
migrate_all_tables_table ==
    /\ sweep.kind = "postgres" /\ sweep.pc = "loop"
    /\ LET i == sweep.todo[sweep.k]
       IN  IF i \in sweep.excluded
           THEN sweep' = [sweep EXCEPT
                            !.k = @ + 1,
                            !.pc = IF sweep.k = Len(sweep.todo)
                                   THEN "done" ELSE "loop"]
           ELSE \E o \in PossibleOutcomes(sweep) :
                  sweep' = AfterItem(sweep, i, o)
    /\ UNCHANGED sweepFrame

InitSweep ==
    /\ MainIdle
    /\ peer = PeerIdle
    /\ cancel = <<>>
    /\ tracker = TrackerIdle
    /\ loader = LoaderIdle
    /\ \E kind \in {"crawler", "pipeline", "postgres"},
          n \in 1..Max(MaxItems, Cardinality(CrawlerSources)) :
         /\ kind = "crawler" => n = Cardinality(CrawlerSources)
         /\ kind # "crawler" => n <= MaxItems
         /\ \E r \in [1..n -> 1..MaxRecords], x \in SUBSET (1..n) :
              /\ kind # "postgres" => x = {}
              /\ sweep = [SweepIdle EXCEPT !.kind = kind, !.n = n,
                                           !.records = r, !.excluded = x,
                                           !.pc = "start"]

NextSweep ==
    \/ crawler_run
    \/ crawler_run_source
    \/ list_unprocessed_files
    \/ pipeline_run_file
    \/ pipeline_next_run
    \/ list_tables
    \/ migrate_all_tables_table

SpecSweep == InitSweep /\ [][NextSweep]_vars

RECURSIVE SumRecords(_, _)
SumRecords(r, S) ==
    IF S = {} THEN 0
    ELSE LET i == CHOOSE j \in S : TRUE
         IN  r[i] + SumRecords(r, S \ {i})

\* C29 (as claimed): list_unprocessed_files returns a raw file exactly when
\* no earlier run has completed save_processed_incidents for it (both the
\* processed copy and the embeddings copy written).
C29_ProcessedBookkeeping ==
    (sweep.kind = "pipeline" /\ sweep.pc \in {"loop", "done"}) =>
        sweep.listed = Items \ sweep.completedAtList

\* C30 (as claimed): an exception raised while handling one item is confined
\* to that item: no item fails because of another item's exception, every
\* item of the list that is not excluded is attempted, the run fails only
\* before the loop, and the reported total is the number of records of the
\* items whose upload succeeded.
C30_FailureIsolation ==
    /\ sweep.failed \subseteq sweep.ownFault
    /\ sweep.pc = "failed" => sweep.attempted = {}
    /\ (sweep.pc = "done" /\ sweep.kind \in {"crawler", "postgres"}) =>
          sweep.attempted = Items \ sweep.excluded
    /\ (sweep.pc = "done" /\ sweep.kind = "pipeline") =>
          sweep.attempted = sweep.listed
    /\ sweep.pc = "done" =>
          sweep.total = SumRecords(sweep.records, sweep.succeeded)

====
